---------------------------- MODULE Spec2Model ----------------------------
(***************************************************************************)
(* A model of libcpu's x86 core: the segment selector and privilege        *)
(* encoding (x86/mod.rs), the Global Descriptor Table (x86/gdt.rs), the    *)
(* flag-typed control registers (x86/macros.rs, cpu_register!) and the     *)
(* CPUID feature registry (x86/macros.rs and x86/cpuid.rs, cpu_features!). *)
(*                                                                         *)
(* Machine words are naturals reduced modulo their width where the code    *)
(* computes with them arithmetically (u8, u16), and sets of bit positions  *)
(* where the code only combines them bitwise (the 64-bit control           *)
(* registers and the 32-bit CPUID output registers).                       *)
(***************************************************************************)
EXTENDS Integers, Sequences, FiniteSets, TLC

VARIABLES
    sel_args,        \* the arguments a caller passes to SegmentSelector::new
    selector,        \* SegmentSelector.0, the caller's selector value (u16)
    desc_args,       \* the arguments a caller passes to GDTDescriptor::new
    desc,            \* the GDTDescriptor the caller built
    descriptors,     \* GlobalDescriptorTable.descriptors
    count,           \* GlobalDescriptorTable.count
    gdtr,            \* the CPU's GDTR, written by lgdt
    cr,              \* the hardware control registers cr0, cr3, cr4
    cpuid_hw,        \* what the CPUID instruction answers to each request
    cpuid_cache,     \* whether the crate is built with feature "cpuid_cache"
    cpu_features_macro, \* the file whose cpu_features! the build expands
    FEATURES_CACHE,  \* static mut FEATURES_CACHE
    queries,         \* the CPUID requests issued so far, in order
    ctx,             \* each execution context's position inside enabled_features
    last,            \* the last call made and what it returned
    panicked         \* a panic! was reached: the execution context is gone

vars == <<sel_args, selector, desc_args, desc, descriptors, count, gdtr, cr, cpuid_hw,
          cpuid_cache, cpu_features_macro, FEATURES_CACHE, queries, ctx, last,
          panicked>>

selVars == <<sel_args, selector>>
descVars == <<desc_args, desc>>
gdtVars == <<descriptors, count, gdtr>>
regVars == <<cr>>
cpuVars == <<cpuid_hw, cpuid_cache, cpu_features_macro, FEATURES_CACHE, queries, ctx>>

-----------------------------------------------------------------------------
(* Fixed-width words.                                                      *)

RECURSIVE Pow2(_)
Pow2(n) == IF n = 0 THEN 1 ELSE 2 * Pow2(n - 1)

\* a | b on naturals
RECURSIVE BitOr(_, _)
BitOr(a, b) ==
    IF a = 0 THEN b
    ELSE IF b = 0 THEN a
    ELSE (IF a % 2 = 1 \/ b % 2 = 1 THEN 1 ELSE 0) + 2 * BitOr(a \div 2, b \div 2)

\* a shift that kept the bits shifted past bit 15
Shl16_keeping(v, n) == v * Pow2(n)

\* (v << n) on a u16: the bits shifted past bit 15 are lost
Shl16(v, n) == (v * Pow2(n)) % Pow2(16)

\* (v >> n)
Shr(v, n) == v \div Pow2(n)

\* v as u16, v as u8
AsU16(v) == v % Pow2(16)
AsU8(v) == v % Pow2(8)

\* bit_field::BitField::get_bits(lo..hi) and get_bit(i)
GetBits(v, lo, hi) == (v \div Pow2(lo)) % Pow2(hi - lo)
GetBit(v, i) == (v \div Pow2(i)) % 2 = 1

\* the assertion of bit_field::BitField::set_bits(lo..hi, value) on a u16:
\* value << (16 - (hi - lo)) >> (16 - (hi - lo)) == value, or it panics with
\* "value does not fit into bit range"
SetBitsFits(lo, hi, value) ==
    Shr(Shl16(value, 16 - (hi - lo)), 16 - (hi - lo)) = value

\* bit_field::BitField::set_bits(lo..hi, value) on a u16, past its assertion
SetBits(v, lo, hi, value) ==
    (v - GetBits(v, lo, hi) * Pow2(lo)) + value * Pow2(lo)

\* bit_field::BitField::set_bit(i, bit) on a u16
SetBit(v, i, bit) ==
    (v - (IF GetBit(v, i) THEN Pow2(i) ELSE 0)) + (IF bit THEN Pow2(i) ELSE 0)

\* The outcome of a call that reached panic!
Panic == "panic"

-----------------------------------------------------------------------------
(* PrivilegeLevel, DescriptorTable and SegmentSelector (x86/mod.rs).       *)

PrivilegeLevels == {"KernelSpace", "Ring1", "Ring2", "UserSpace"}

\* `level as u8` / `level as u16`: the enum's discriminant
PrivilegeLevel_as_int(level) ==
    CASE level = "KernelSpace" -> 0
      [] level = "Ring1"       -> 32
      [] level = "Ring2"       -> 64
      [] level = "UserSpace"   -> 96

\* impl From<u16> for PrivilegeLevel
PrivilegeLevel_from(value) ==
    CASE value = 0 -> "KernelSpace"
      [] value = 1 -> "Ring1"
      [] value = 2 -> "Ring2"
      [] value = 4 -> "UserSpace"
      [] OTHER     -> Panic

DescriptorTables == {"GDT", "LDT"}

\* `table as u16`: the enum's discriminant
DescriptorTable_as_int(table) ==
    CASE table = "GDT" -> 0
      [] table = "LDT" -> 8

\* impl From<bool> for DescriptorTable
DescriptorTable_from(value) == IF value THEN "LDT" ELSE "GDT"

\* impl From<DescriptorTable> for bool
DescriptorTable_into_bool(table) == table = "LDT"

\* SegmentSelector::new
SegmentSelector_new(index, table, privilege) ==
    BitOr(BitOr(Shl16(index, 3), DescriptorTable_as_int(table)),
          Shr(PrivilegeLevel_as_int(privilege), 5))

\* SegmentSelector::privilege_level
SegmentSelector_privilege_level(s) == PrivilegeLevel_from(GetBits(s, 0, 2))

\* SegmentSelector::table
SegmentSelector_table(s) == DescriptorTable_from(GetBit(s, 2))

\* SegmentSelector::index
SegmentSelector_index(s) == Shr(s, 3)

\* SegmentSelector::set_privilege_level: self.0 afterwards, and whether it panicked
SegmentSelector_set_privilege_level(s, level) ==
    IF SetBitsFits(0, 2, PrivilegeLevel_as_int(level))
    THEN [self |-> SetBits(s, 0, 2, PrivilegeLevel_as_int(level)), ret |-> "()"]
    ELSE [self |-> s, ret |-> Panic]

\* SegmentSelector::set_table: self.0 afterwards
SegmentSelector_set_table(s, table) == SetBit(s, 2, DescriptorTable_into_bool(table))

\* SegmentSelector::set_index: self.0 afterwards, and whether it panicked
SegmentSelector_set_index(s, index) ==
    IF SetBitsFits(0, 16, index)
    THEN [self |-> SetBits(s, 0, 16, index), ret |-> "()"]
    ELSE [self |-> s, ret |-> Panic]

-----------------------------------------------------------------------------
(* Access, Flags and GDTDescriptor (x86/gdt.rs).                           *)

Access_ACCESSED == 1
Access_PRESENT == 128
Access_USER_SEGMENT == 16
Access_EXECUTABLE == 8
Access_READABLE == 2
Access_WRITABLE == 2

Flags_GRANULARITY == 128
Flags_SIZE == 64
Flags_LONG_MODE == 32

\* GDTDescriptor::new
GDTDescriptor_new(base_address, limit_address, privilege, access, flags) ==
    [lower_limit_address |-> AsU16(limit_address),
     lower_base_address  |-> AsU16(base_address),
     middle_base_address |-> AsU8(Shr(base_address, 16)),
     access              |-> BitOr(BitOr(AsU8(GetBits(limit_address, 0, 3)), access),
                                   PrivilegeLevel_as_int(privilege)),
     flags               |-> flags,
     higher_base_address |-> AsU8(Shr(base_address, 16))]

\* GDTDescriptor::null
GDTDescriptor_null ==
    [lower_limit_address |-> 0,
     lower_base_address  |-> 0,
     middle_base_address |-> 0,
     access              |-> 0,
     flags               |-> 0,
     higher_base_address |-> 0]

\* the limit both segment helpers pass: 0xFFFFF
MaxLimit == Pow2(20) - 1

\* GDTDescriptor::code_segment
GDTDescriptor_code_segment(level) ==
    GDTDescriptor_new(
        0, MaxLimit, level,
        BitOr(BitOr(BitOr(BitOr(Access_PRESENT, Access_ACCESSED), Access_USER_SEGMENT),
                    Access_READABLE), Access_EXECUTABLE),
        BitOr(Flags_GRANULARITY, Flags_LONG_MODE))

\* GDTDescriptor::data_segment
GDTDescriptor_data_segment(level) ==
    GDTDescriptor_new(
        0, MaxLimit, level,
        BitOr(BitOr(BitOr(Access_PRESENT, Access_ACCESSED), Access_USER_SEGMENT),
              Access_WRITABLE),
        BitOr(Flags_GRANULARITY, Flags_LONG_MODE))

\* GDTDescriptor::privilege_level
GDTDescriptor_privilege_level(d) == PrivilegeLevel_from(AsU16(GetBits(d.access, 5, 7)))

-----------------------------------------------------------------------------
(* GlobalDescriptorTable (x86/gdt.rs).                                     *)

\* the length of GlobalDescriptorTable.descriptors
MaxDescriptors == 8192

\* size_of::<GDTDescriptor>(): a packed record of u16, u16, u8, u8, u8, u8
SizeOfGDTDescriptor == 2 + 2 + 1 + 1 + 1 + 1

\* the address of the table's storage, self.descriptors.as_ptr()
DescriptorsAddress == "&descriptors"

\* GlobalDescriptorTable::new that leaves no slot reserved: count starts at 0
GlobalDescriptorTable_new_unreserved ==
    [descriptors |-> [i \in 0 .. MaxDescriptors - 1 |-> GDTDescriptor_null],
     count       |-> 0]

\* GlobalDescriptorTable::new
GlobalDescriptorTable_new ==
    [descriptors |-> [i \in 0 .. MaxDescriptors - 1 |-> GDTDescriptor_null],
     count       |-> 1]

\* a capacity test that is off by one: self.count >= 8192
TableFull_off_by_one(c) == c >= MaxDescriptors

\* a push that leaves the count as it was
CountAfterPush_same(c) == c

\* push's self.count += 1
CountAfterPush(c) == c + 1

\* push's capacity test: self.count + 1 >= 8192
TableFull(c) == c + 1 >= MaxDescriptors

\* a push that replaces the descriptor inserted last instead of appending
GlobalDescriptorTable_push_replacing(t, descriptor) ==
    [descriptors |-> [t.descriptors EXCEPT ![t.count - 1] = descriptor],
     count       |-> t.count,
     ret         |-> "None"]

\* GlobalDescriptorTable::push on the table t: the table it leaves and what it returns.
\* The slot is written and the count raised before descriptor.privilege_level() is
\* evaluated, so a panic there finds the table already changed.
GlobalDescriptorTable_push(t, descriptor) ==
    IF TableFull(t.count)
    THEN [descriptors |-> t.descriptors, count |-> t.count, ret |-> "None"]
    ELSE LET stored == [t.descriptors EXCEPT ![t.count] = descriptor]
             raised == t.count + 1
             level  == GDTDescriptor_privilege_level(descriptor)
         IN  IF level = Panic
             THEN [descriptors |-> stored, count |-> raised, ret |-> Panic]
             ELSE [descriptors |-> stored, count |-> raised, ret |-> "Some",
                   sel |-> SegmentSelector_new(AsU16(raised - 1), "GDT", level)]

\* as_ptr with the table's size in bytes, not its size less one
GlobalDescriptorTable_as_ptr_unreduced(t) ==
    [base |-> DescriptorsAddress,
     size |-> AsU16(t.count * SizeOfGDTDescriptor)]

\* GlobalDescriptorTable::as_ptr
GlobalDescriptorTable_as_ptr(t) ==
    [base |-> DescriptorsAddress,
     size |-> AsU16(t.count * SizeOfGDTDescriptor - 1)]

-----------------------------------------------------------------------------
(* The flag-typed control registers (x86/mod.rs, x86/macros.rs).           *)
(* A register word and a flag set are the set of the positions of their    *)
(* 1-bits: `1 << k` is {k}, `|` is \cup and `&` is \cap.                    *)

ControlRegisters == {"cr0", "cr3", "cr4"}

\* CR0Flags::all()
CR0Flags == {0, 1, 2, 3, 4, 5, 16, 18, 29, 30, 31}

\* CR3Flags::all()
CR3Flags == {3, 4}

\* CR4Flags::all()
CR4Flags == {0, 1, 2, 3, 4, 5, 6, 7, 8, 9, 10, 11, 13, 14, 16, 17, 18, 20, 21, 22, 23, 34}

\* the flags struct the register was declared with: cpu_register!(cr0, "cr0", CR0Flags), ...
FlagsStruct(reg) ==
    CASE reg = "cr0" -> CR0Flags
      [] reg = "cr3" -> CR3Flags
      [] reg = "cr4" -> CR4Flags

\* $flags_struct::from_bits_truncate
from_bits_truncate(reg, value) == value \cap FlagsStruct(reg)

\* get_<reg>: `mov {}, <reg>` and the typed view of what was read
get_reg(reg, hw) == from_bits_truncate(reg, hw[reg])

\* a set_<reg> that moves value.bits() into the register
set_reg_word_overwrite(reg, value, hw) == value

\* the word set_<reg> moves into the register: (value | get_<reg>()).bits()
set_reg_word(reg, value, hw) == value \cup get_reg(reg, hw)

\* a set_<reg> that replaces the named flags and keeps the other bits
set_reg_replacing(reg, value, hw) ==
    [hw EXCEPT ![reg] = value \cup (hw[reg] \ FlagsStruct(reg))]

\* set_<reg>: `mov <reg>, {}`
set_reg(reg, value, hw) == [hw EXCEPT ![reg] = set_reg_word(reg, value, hw)]

-----------------------------------------------------------------------------
(* CPUIDRequest (x86/cpuid.rs) and the CPUFeature catalog (x86/mod.rs).    *)

\* CPUIDRequest's variants, as declared
CPUIDRequests ==
    <<"Features", "ExtendedFeatures1", "ExtendedFeatures2", "ExtendedFeatures3",
      "ExtendedFeatures4">>

\* the fields of CpuidResult
CpuidRegisters == {"eax", "ebx", "ecx", "edx"}

\* CPUIDRequest::leaf: 1, 7, 7, 7, 0x80000001 as the positions of their 1-bits
CPUIDRequest_leaf(request) ==
    CASE request = "Features"          -> {0}
      [] request = "ExtendedFeatures1" -> {0, 1, 2}
      [] request = "ExtendedFeatures2" -> {0, 1, 2}
      [] request = "ExtendedFeatures3" -> {0, 1, 2}
      [] request = "ExtendedFeatures4" -> {0, 31}

\* CPUIDRequest::sub_leaf: None is {}, Some(n) is {n}
CPUIDRequest_sub_leaf(request) ==
    CASE request = "ExtendedFeatures1" -> {0}
      [] request = "ExtendedFeatures2" -> {1}
      [] request = "ExtendedFeatures3" -> {2}
      [] OTHER                         -> {}

\* the (leaf, sub-leaf) CPUIDRequest::cpuid puts in eax and ecx:
\* __cpuid(leaf) is __cpuid_count(leaf, 0)
CPUIDRequest_query(request) ==
    LET sub == CPUIDRequest_sub_leaf(request)
    IN  <<CPUIDRequest_leaf(request), IF sub = {} THEN 0 ELSE CHOOSE n \in sub : TRUE>>

\* CPUIDRequest::cpuid against the hardware hw
CPUIDRequest_cpuid(request, hw) == hw[CPUIDRequest_query(request)]

\* one catalog line: $feat_ident ($register, _, $request) = 1 << bit
F(ident, register, request, bit) ==
    [ident |-> ident, register |-> register, request |-> request, value |-> {bit}]

\* the feature list of cpu_features! { pub enum CPUFeature { ... } }, as declared
Catalog ==
    <<
       F("SSE3", "ecx", "Features", 0),
       F("PCLMUL", "ecx", "Features", 1),
       F("DTES64", "ecx", "Features", 2),
       F("MONITOR", "ecx", "Features", 3),
       F("DS_CPL", "ecx", "Features", 4),
       F("VMX", "ecx", "Features", 5),
       F("SMX", "ecx", "Features", 6),
       F("EST", "ecx", "Features", 7),
       F("TM2", "ecx", "Features", 8),
       F("SSSE3", "ecx", "Features", 9),
       F("CID", "ecx", "Features", 10),
       F("SDBG", "ecx", "Features", 11),
       F("FMA", "ecx", "Features", 12),
       F("CX16", "ecx", "Features", 13),
       F("XTPR", "ecx", "Features", 14),
       F("PDCM", "ecx", "Features", 15),
       F("PCID", "ecx", "Features", 17),
       F("DCA", "ecx", "Features", 18),
       F("SSE4_1", "ecx", "Features", 19),
       F("SSE4_2", "ecx", "Features", 20),
       F("X2APIC", "ecx", "Features", 21),
       F("MOVBE", "ecx", "Features", 22),
       F("POPCNT", "ecx", "Features", 23),
       F("TSCDeadline", "ecx", "Features", 24),
       F("AES", "ecx", "Features", 25),
       F("XSAVE", "ecx", "Features", 26),
       F("OSXSAVE", "ecx", "Features", 27),
       F("AVX", "ecx", "Features", 28),
       F("F16C", "ecx", "Features", 29),
       F("RDRAND", "ecx", "Features", 30),
       F("HYPERVISOR", "ecx", "Features", 31),
       F("FPU", "edx", "Features", 0),
       F("VME", "edx", "Features", 1),
       F("DE", "edx", "Features", 2),
       F("PSE", "edx", "Features", 3),
       F("TSC", "edx", "Features", 4),
       F("MSR", "edx", "Features", 5),
       F("PAE", "edx", "Features", 6),
       F("MCE", "edx", "Features", 7),
       F("CX8", "edx", "Features", 8),
       F("APIC", "edx", "Features", 9),
       F("SEP", "edx", "Features", 11),
       F("MTRR", "edx", "Features", 12),
       F("PGE", "edx", "Features", 13),
       F("MCA", "edx", "Features", 14),
       F("CMOV", "edx", "Features", 15),
       F("PAT", "edx", "Features", 16),
       F("PSE36", "edx", "Features", 17),
       F("PSN", "edx", "Features", 18),
       F("CLFLUSH", "edx", "Features", 19),
       F("NX_Itanium", "edx", "Features", 20),
       F("DS", "edx", "Features", 21),
       F("ACPI", "edx", "Features", 22),
       F("MMX", "edx", "Features", 23),
       F("FXSR", "edx", "Features", 24),
       F("SSE", "edx", "Features", 25),
       F("SSE2", "edx", "Features", 26),
       F("SS", "edx", "Features", 27),
       F("HTT", "edx", "Features", 28),
       F("TM", "edx", "Features", 29),
       F("IA64", "edx", "Features", 30),
       F("PBE", "edx", "Features", 31),
       F("FSGSBase", "ebx", "ExtendedFeatures1", 0),
       F("SGX", "ebx", "ExtendedFeatures1", 2),
       F("BMI1", "ebx", "ExtendedFeatures1", 3),
       F("HLE", "ebx", "ExtendedFeatures1", 4),
       F("AVX2", "ebx", "ExtendedFeatures1", 5),
       F("FDP_EXCPTN_ONLY", "ebx", "ExtendedFeatures1", 6),
       F("SMEP", "ebx", "ExtendedFeatures1", 7),
       F("BMI2", "ebx", "ExtendedFeatures1", 8),
       F("ERMS", "ebx", "ExtendedFeatures1", 9),
       F("INVPCID", "ebx", "ExtendedFeatures1", 10),
       F("RTM", "ebx", "ExtendedFeatures1", 11),
       F("PQM", "ebx", "ExtendedFeatures1", 12),
       F("MPX", "ebx", "ExtendedFeatures1", 14),
       F("AVX512F", "ebx", "ExtendedFeatures1", 16),
       F("AVX512DQ", "ebx", "ExtendedFeatures1", 17),
       F("RDSEED", "ebx", "ExtendedFeatures1", 18),
       F("ADX", "ebx", "ExtendedFeatures1", 19),
       F("SMAP", "ebx", "ExtendedFeatures1", 20),
       F("AVX512_IFMA", "ebx", "ExtendedFeatures1", 21),
       F("PCOMMIT", "ebx", "ExtendedFeatures1", 22),
       F("CFLUSHOPT", "ebx", "ExtendedFeatures1", 23),
       F("CLWB", "ebx", "ExtendedFeatures1", 24),
       F("PT", "ebx", "ExtendedFeatures1", 25),
       F("AVX512PF", "ebx", "ExtendedFeatures1", 26),
       F("AVX512ER", "ebx", "ExtendedFeatures1", 27),
       F("AVX512CD", "ebx", "ExtendedFeatures1", 28),
       F("SHA", "ebx", "ExtendedFeatures1", 29),
       F("AVX512BW", "ebx", "ExtendedFeatures1", 30),
       F("AVX512VI", "ebx", "ExtendedFeatures1", 31),
       F("PreFetchWT1", "ecx", "ExtendedFeatures1", 0),
       F("AVX512VBMI", "ecx", "ExtendedFeatures1", 1),
       F("UMIP", "ecx", "ExtendedFeatures1", 2),
       F("PKU", "ecx", "ExtendedFeatures1", 3),
       F("OSPKE", "ecx", "ExtendedFeatures1", 4),
       F("WAITKG", "ecx", "ExtendedFeatures1", 5),
       F("AVX512VBMI2", "ecx", "ExtendedFeatures1", 6),
       F("ShadowStack", "ecx", "ExtendedFeatures1", 7),
       F("GFNI", "ecx", "ExtendedFeatures1", 8),
       F("VAES", "ecx", "ExtendedFeatures1", 9),
       F("VPCLMULQDQ", "ecx", "ExtendedFeatures1", 10),
       F("AVX512VNNI", "ecx", "ExtendedFeatures1", 11),
       F("AVX512BITALG", "ecx", "ExtendedFeatures1", 12),
       F("TME", "ecx", "ExtendedFeatures1", 13),
       F("AVX512VPOPCNTDQ", "ecx", "ExtendedFeatures1", 14),
       F("LA57", "ecx", "ExtendedFeatures1", 16),
       F("RDPID", "ecx", "ExtendedFeatures1", 22),
       F("KL", "ecx", "ExtendedFeatures1", 23),
       F("BusLockDetect", "ecx", "ExtendedFeatures1", 24),
       F("CIDEMOTE", "ecx", "ExtendedFeatures1", 25),
       F("MOVDIRI", "ecx", "ExtendedFeatures1", 27),
       F("MOBDIR64B", "ecx", "ExtendedFeatures1", 28),
       F("ENQCMD", "ecx", "ExtendedFeatures1", 29),
       F("SGXLC", "ecx", "ExtendedFeatures1", 30),
       F("PKS", "ecx", "ExtendedFeatures1", 31),
       F("SGXKeys", "edx", "ExtendedFeatures1", 1),
       F("AVX512_4VNNIW", "edx", "ExtendedFeatures1", 2),
       F("AVX512_4FMAPS", "edx", "ExtendedFeatures1", 3),
       F("FSRM", "edx", "ExtendedFeatures1", 4),
       F("UINTR", "edx", "ExtendedFeatures1", 5),
       F("AVX512VP2INTERSECT", "edx", "ExtendedFeatures1", 8),
       F("SRDBS_CTRL", "edx", "ExtendedFeatures1", 9),
       F("MCClear", "edx", "ExtendedFeatures1", 10),
       F("RTMAlwaysAbort", "edx", "ExtendedFeatures1", 11),
       F("TSXForceAbort", "edx", "ExtendedFeatures1", 13),
       F("SERIALIZE", "edx", "ExtendedFeatures1", 14),
       F("HYBRID", "edx", "ExtendedFeatures1", 15),
       F("TSXLDTRK", "edx", "ExtendedFeatures1", 16),
       F("PCONFIG", "edx", "ExtendedFeatures1", 18),
       F("IBR", "edx", "ExtendedFeatures1", 19),
       F("CET_IBT", "edx", "ExtendedFeatures1", 20),
       F("AMXBF16", "edx", "ExtendedFeatures1", 22),
       F("AVS512FP16", "edx", "ExtendedFeatures1", 23),
       F("AMXTile", "edx", "ExtendedFeatures1", 24),
       F("AMXInt8", "edx", "ExtendedFeatures1", 25),
       F("SpecControl", "edx", "ExtendedFeatures1", 26),
       F("STIBP", "edx", "ExtendedFeatures1", 27),
       F("L1DFlush", "edx", "ExtendedFeatures1", 28),
       F("SSBD", "edx", "ExtendedFeatures1", 31),
       F("SHA512Extensions", "eax", "ExtendedFeatures2", 0),
       F("SM3", "eax", "ExtendedFeatures2", 1),
       F("SM4", "eax", "ExtendedFeatures2", 2),
       F("RAO_INT", "eax", "ExtendedFeatures2", 3),
       F("AVX_VNNI", "eax", "ExtendedFeatures2", 4),
       F("AVX512BF16", "eax", "ExtendedFeatures2", 5),
       F("LASS", "eax", "ExtendedFeatures2", 6),
       F("CMPCCXADD", "eax", "ExtendedFeatures2", 7),
       F("ARCHPerfMonExt", "eax", "ExtendedFeatures2", 8),
       F("FastZeroRepMOVSB", "eax", "ExtendedFeatures2", 10),
       F("FastShortRepSTOSB", "eax", "ExtendedFeatures2", 11),
       F("FastShortRepCMPSB", "eax", "ExtendedFeatures2", 12),
       F("FRED", "eax", "ExtendedFeatures2", 17),
       F("LKGS", "eax", "ExtendedFeatures2", 18),
       F("WRMSRNS", "eax", "ExtendedFeatures2", 19),
       F("AMXFP16", "eax", "ExtendedFeatures2", 21),
       F("HReset", "eax", "ExtendedFeatures2", 22),
       F("LAM", "eax", "ExtendedFeatures2", 26),
       F("MSRList", "eax", "ExtendedFeatures2", 27),
       F("PPIN", "ebx", "ExtendedFeatures2", 0),
       F("PKNDKB", "ebx", "ExtendedFeatures2", 1),
       F("AVX_VNNI_INT8", "edx", "ExtendedFeatures2", 4),
       F("AVX_NE_CONVERT", "edx", "ExtendedFeatures2", 5),
       F("AMXComplex", "edx", "ExtendedFeatures2", 8),
       F("AVX_VNNI_INT16", "edx", "ExtendedFeatures2", 10),
       F("PREFETCHI", "edx", "ExtendedFeatures2", 14),
       F("UserMSR", "edx", "ExtendedFeatures2", 15),
       F("UIRetUIFFromRFlags", "edx", "ExtendedFeatures2", 17),
       F("CET_SSS", "edx", "ExtendedFeatures2", 18),
       F("AVX10", "edx", "ExtendedFeatures2", 19),
       F("APX_F", "edx", "ExtendedFeatures2", 21),
       F("PFSD", "edx", "ExtendedFeatures3", 0),
       F("IPREDDIS", "edx", "ExtendedFeatures3", 1),
       F("RRSBACtrl", "edx", "ExtendedFeatures3", 2),
       F("DPPDU", "edx", "ExtendedFeatures3", 3),
       F("BHICtrl", "edx", "ExtendedFeatures3", 4),
       F("MCDT_NO", "edx", "ExtendedFeatures3", 5),
       F("Syscall", "edx", "ExtendedFeatures4", 11),
       F("NX", "edx", "ExtendedFeatures4", 20),
       F("FXSROpt", "edx", "ExtendedFeatures4", 25),
       F("GigabytePages", "edx", "ExtendedFeatures4", 26),
       F("RDTSCP", "edx", "ExtendedFeatures4", 27),
       F("LongMode", "edx", "ExtendedFeatures4", 29),
       F("Ext3dNow", "edx", "ExtendedFeatures4", 30),
       F("F3DNow", "edx", "ExtendedFeatures4", 31),
       F("LAHF_LM", "ecx", "ExtendedFeatures4", 0),
       F("CmpLegacy", "ecx", "ExtendedFeatures4", 1),
       F("SecureVM", "ecx", "ExtendedFeatures4", 2),
       F("ExtendedAPIC", "ecx", "ExtendedFeatures4", 3),
       F("CR8Legacy", "ecx", "ExtendedFeatures4", 4),
       F("ABM", "ecx", "ExtendedFeatures4", 5),
       F("SSE4a", "ecx", "ExtendedFeatures4", 6),
       F("MisalignedSSE", "ecx", "ExtendedFeatures4", 7),
       F("Prefetch3DNow", "ecx", "ExtendedFeatures4", 8),
       F("OSVW", "ecx", "ExtendedFeatures4", 9),
       F("IBS", "ecx", "ExtendedFeatures4", 10),
       F("XOP", "ecx", "ExtendedFeatures4", 11),
       F("SKINIT", "ecx", "ExtendedFeatures4", 12),
       F("WatchdogTimer", "ecx", "ExtendedFeatures4", 13),
       F("LWP", "ecx", "ExtendedFeatures4", 15),
       F("FMA4", "ecx", "ExtendedFeatures4", 16),
       F("TCE", "ecx", "ExtendedFeatures4", 17),
       F("NodeIdMSR", "ecx", "ExtendedFeatures4", 19),
       F("TBM", "ecx", "ExtendedFeatures4", 20),
       F("TopoExt", "ecx", "ExtendedFeatures4", 22),
       F("PrefCtrCoe", "ecx", "ExtendedFeatures4", 23),
       F("PrefCtrNb", "ecx", "ExtendedFeatures4", 24),
       F("StreamPerfMon", "ecx", "ExtendedFeatures4", 25),
       F("DBX", "ecx", "ExtendedFeatures4", 26),
       F("PerfTSC", "ecx", "ExtendedFeatures4", 27),
       F("PCXL2I", "ecx", "ExtendedFeatures4", 28),
       F("MonitorX", "ecx", "ExtendedFeatures4", 29),
       F("AddrMaskExt", "ecx", "ExtendedFeatures4", 30)
    >>

\* the variants of enum CPUFeature, in declaration order
CPUFeature == [i \in DOMAIN Catalog |-> Catalog[i].ident]

\* an `if` that tests the mask and not the request
FeatureEnabled_any_request(entry, request, cpuid) ==
    (cpuid[entry.register] \cap entry.value) = entry.value

\* one `if` of enabled_features_by's expansion
FeatureEnabled(entry, request, cpuid) ==
    /\ entry.request = request
    /\ (cpuid[entry.register] \cap entry.value) = entry.value

\* the features enabled_features_by's `if`s push, in the order of the catalog
PushedBy(request, cpuid) ==
    LET hits == SelectSeq(Catalog, LAMBDA entry : FeatureEnabled(entry, request, cpuid))
    IN  [i \in DOMAIN hits |-> hits[i].ident]

\* enabled_features_by: vec afterwards
enabled_features_by(request, vec, hw) ==
    vec \o PushedBy(request, CPUIDRequest_cpuid(request, hw))

\* x86/macros.rs and x86/cpuid.rs both declare #[macro_export] macro_rules!
\* cpu_features; the catalog is expanded by the one the build resolves
CpuFeaturesMacros == {"macros.rs", "cpuid.rs"}

\* an enabled_features that asks ExtendedFeatures4 first and Features last
RequestsAsked_reversed(macro) ==
    <<"ExtendedFeatures4", "ExtendedFeatures3", "ExtendedFeatures2", "ExtendedFeatures1",
      "Features">>

\* the requests enabled_features passes to enabled_features_by, in order
RequestsAsked(macro) ==
    IF macro = "macros.rs"
    THEN <<"Features", "ExtendedFeatures1", "ExtendedFeatures2", "ExtendedFeatures3",
           "ExtendedFeatures4">>
    ELSE <<"Features", "ExtendedFeatures1", "ExtendedFeatures2", "ExtendedFeatures3">>

\* the body of enabled_features past the cache test: vec after the first n of the
\* requests asked
RECURSIVE EnabledAfter(_, _, _)
EnabledAfter(n, asked, hw) ==
    IF n = 0 THEN <<>>
    ELSE enabled_features_by(asked[n], EnabledAfter(n - 1, asked, hw), hw)

\* an enabled_features built without its #[cfg(feature = "cpuid_cache")] lines
CacheCompiled_never(macro, feature) == FALSE

\* whether enabled_features consults FEATURES_CACHE: only macros.rs has the
\* #[cfg(feature = "cpuid_cache")] lines
CacheCompiled(macro, feature) == macro = "macros.rs" /\ feature

\* all_features without the last declared variant
all_features_short == [i \in 1 .. Len(Catalog) - 1 |-> Catalog[i].ident]

\* all_features
all_features == [i \in DOMAIN Catalog |-> Catalog[i].ident]

\* Option: None and Some(x)
None == <<>>
Some(x) == <<x>>

-----------------------------------------------------------------------------
(* Bounds of the model, and the state of a subsystem nothing has used.     *)

\* pushes a run makes onto a fresh table
MaxPushed == 1

\* free slots a nearly full table starts with
Headroom == 1

\* uncached enabled_features calls one run makes
MaxCalls == 2

\* the index field of a selector is 13 bits wide
IndexBits == 13

\* every index that fits the selector's index field
IndexInputs == 0 .. Pow2(IndexBits) - 1

\* the indexes the field mutators are tried with: the ends of the range, and
\* indexes whose low three bits hold 1, 2, 5 and 0
SampleIndexes == {0, 1, 2, 5, 4096, 8191}

\* the largest raw value PrivilegeLevel::from is tried with
MaxRaw == 7

\* execution contexts (cores, or a thread and an interrupt handler) that call
\* enabled_features
NumContexts == 2

Contexts == 1 .. NumContexts

\* a context that is not inside enabled_features
CtxIdle == [pc |-> "idle", vec |-> <<>>, wrote |-> FALSE, raced |-> FALSE]

\* bit positions a control register is seeded with: 3 is a named flag of cr0, cr3
\* and cr4, 34 is named in cr4 only, 12 is named in none of them
SampleBits == {3, 12, 34}

SelIdle ==
    /\ sel_args = [index |-> 0, table |-> "GDT", privilege |-> "KernelSpace"]
    /\ selector = 0

DescIdle ==
    /\ desc_args = [base_address |-> 0, limit_address |-> 0,
                    privilege |-> "KernelSpace", access |-> 0, flags |-> 0]
    /\ desc = GDTDescriptor_null

GdtIdle ==
    /\ descriptors = <<>>
    /\ count = 0
    /\ gdtr = None

RegIdle == cr = [reg \in ControlRegisters |-> {}]

CpuQueries == {CPUIDRequest_query(CPUIDRequests[i]) : i \in DOMAIN CPUIDRequests}

ZeroHw == [q \in CpuQueries |-> [r \in CpuidRegisters |-> {}]]

CpuIdle ==
    /\ cpuid_hw = ZeroHw
    /\ cpuid_cache = FALSE
    /\ cpu_features_macro = "macros.rs"
    /\ FEATURES_CACHE = None
    /\ queries = <<>>
    /\ ctx = [c \in Contexts |-> CtxIdle]

-----------------------------------------------------------------------------
(* Selectors: a caller builds a selector and reads its fields back.        *)

SelectorInit ==
    /\ sel_args \in [index : IndexInputs, table : DescriptorTables,
                     privilege : PrivilegeLevels]
    /\ selector = 0
    /\ last = [op |-> "none"]
    /\ panicked = FALSE
    /\ DescIdle /\ GdtIdle /\ RegIdle /\ CpuIdle

\* let s = SegmentSelector::new(index, table, privilege)
SelNew ==
    /\ ~panicked
    /\ selector' = SegmentSelector_new(sel_args.index, sel_args.table, sel_args.privilege)
    /\ last' = [op |-> "new"]
    /\ UNCHANGED <<descVars, sel_args, gdtVars, regVars, cpuVars, panicked>>

\* s.index()
SelIndex ==
    /\ ~panicked
    /\ last.op # "none"
    /\ last' = [op |-> "index", ret |-> SegmentSelector_index(selector)]
    /\ UNCHANGED <<descVars, selVars, gdtVars, regVars, cpuVars, panicked>>

\* s.table()
SelTable ==
    /\ ~panicked
    /\ last.op # "none"
    /\ last' = [op |-> "table", ret |-> SegmentSelector_table(selector)]
    /\ UNCHANGED <<descVars, selVars, gdtVars, regVars, cpuVars, panicked>>

\* s.privilege_level()
SelPrivilegeLevel ==
    /\ ~panicked
    /\ last.op # "none"
    /\ last' = [op |-> "privilege_level", ret |-> SegmentSelector_privilege_level(selector)]
    /\ panicked' = (SegmentSelector_privilege_level(selector) = Panic)
    /\ UNCHANGED <<descVars, selVars, gdtVars, regVars, cpuVars>>

SelectorNext == SelNew \/ SelIndex \/ SelTable \/ SelPrivilegeLevel

SelectorSpec == SelectorInit /\ [][SelectorNext]_vars

-----------------------------------------------------------------------------
(* Selectors built from an index that does not fit the index field: new    *)
(* takes any u16.                                                          *)

\* indexes of 8192 and more, up to 65535: each sampled index under every pattern
\* of the three bits above the field
WideIndexInputs ==
    {i + k * Pow2(IndexBits) : i \in SampleIndexes, k \in 1 .. Pow2(16 - IndexBits) - 1}

WideInit ==
    /\ sel_args \in [index : WideIndexInputs, table : DescriptorTables,
                     privilege : PrivilegeLevels]
    /\ selector = 0
    /\ last = [op |-> "none"]
    /\ panicked = FALSE
    /\ DescIdle /\ GdtIdle /\ RegIdle /\ CpuIdle

WideSpec == WideInit /\ [][SelectorNext]_vars

-----------------------------------------------------------------------------
(* Descriptors: a caller builds a descriptor, with new or with one of the  *)
(* segment helpers, and reads its privilege level back.                    *)

\* base addresses passed to new: 0, 0xFFFF, 0xAB0000, 0x12345678 and 0x7FFFFFFF
BaseInputs == {0, 65535, 11206656, 305419896, 2147483647}

\* limits passed to new: 0, the bits new copies into the access byte, the low 16
\* bits, the high nibble, and the maximum
LimitInputs == {0, 7, 65535, 983040, MaxLimit}

\* Access sets passed to new: none and the helpers' two sets
AccessInputs ==
    {0,
     BitOr(BitOr(BitOr(BitOr(Access_PRESENT, Access_ACCESSED), Access_USER_SEGMENT),
                 Access_READABLE), Access_EXECUTABLE),
     BitOr(BitOr(BitOr(Access_PRESENT, Access_ACCESSED), Access_USER_SEGMENT),
           Access_WRITABLE)}

\* Flags sets passed to new: none and the helpers' set
FlagsInputs == {0, BitOr(Flags_GRANULARITY, Flags_LONG_MODE)}

DescriptorInit ==
    /\ desc_args \in [base_address : BaseInputs, limit_address : LimitInputs,
                      privilege : PrivilegeLevels, access : AccessInputs,
                      flags : FlagsInputs]
    /\ desc = GDTDescriptor_null
    /\ last = [op |-> "none"]
    /\ panicked = FALSE
    /\ SelIdle /\ GdtIdle /\ RegIdle /\ CpuIdle

\* let d = GDTDescriptor::new(base_address, limit_address, privilege, access, flags)
DescNew ==
    /\ ~panicked
    /\ desc' = GDTDescriptor_new(desc_args.base_address, desc_args.limit_address,
                                       desc_args.privilege, desc_args.access,
                                       desc_args.flags)
    /\ last' = [op |-> "new"]
    /\ UNCHANGED <<desc_args, selVars, gdtVars, regVars, cpuVars, panicked>>

\* let d = GDTDescriptor::code_segment(level)
DescCodeSegment(level) ==
    /\ ~panicked
    /\ desc' = GDTDescriptor_code_segment(level)
    /\ last' = [op |-> "code_segment", arg |-> level]
    /\ UNCHANGED <<desc_args, selVars, gdtVars, regVars, cpuVars, panicked>>

\* let d = GDTDescriptor::data_segment(level)
DescDataSegment(level) ==
    /\ ~panicked
    /\ desc' = GDTDescriptor_data_segment(level)
    /\ last' = [op |-> "data_segment", arg |-> level]
    /\ UNCHANGED <<desc_args, selVars, gdtVars, regVars, cpuVars, panicked>>

\* d.privilege_level(), on a descriptor new built
DescPrivilegeLevel ==
    /\ ~panicked
    /\ last.op = "new"
    /\ last' = [op |-> "privilege_level", ret |-> GDTDescriptor_privilege_level(desc)]
    /\ panicked' = (GDTDescriptor_privilege_level(desc) = Panic)
    /\ UNCHANGED <<descVars, selVars, gdtVars, regVars, cpuVars>>

DescriptorNext ==
    \/ DescNew
    \/ \E level \in PrivilegeLevels : DescCodeSegment(level)
    \/ \E level \in PrivilegeLevels : DescDataSegment(level)
    \/ DescPrivilegeLevel

DescriptorSpec == DescriptorInit /\ [][DescriptorNext]_vars

-----------------------------------------------------------------------------
(* Selector fields: a caller holds some selector value, replaces one field *)
(* of it or reads one, and decodes raw privilege values.                   *)

\* the selector values a caller starts with: every table and privilege bit
\* pattern under each sampled index
SelectorInputs == {s \in 0 .. Pow2(16) - 1 : Shr(s, 3) \in SampleIndexes}

MutatorInit ==
    /\ selector \in SelectorInputs
    /\ sel_args = [index |-> 0, table |-> "GDT", privilege |-> "KernelSpace"]
    /\ last = [op |-> "value"]
    /\ panicked = FALSE
    /\ DescIdle /\ GdtIdle /\ RegIdle /\ CpuIdle

\* s.set_index(index)
SelSetIndex(index) ==
    LET r == SegmentSelector_set_index(selector, index)
    IN  /\ ~panicked
        /\ selector' = r.self
        /\ panicked' = (r.ret = Panic)
        /\ last' = [op |-> "set_index", arg |-> index]
        /\ UNCHANGED <<descVars, sel_args, gdtVars, regVars, cpuVars>>

\* s.set_table(table)
SelSetTable(table) ==
    /\ ~panicked
    /\ selector' = SegmentSelector_set_table(selector, table)
    /\ last' = [op |-> "set_table", arg |-> table]
    /\ UNCHANGED <<descVars, sel_args, gdtVars, regVars, cpuVars, panicked>>

\* s.set_privilege_level(level)
SelSetPrivilegeLevel(level) ==
    LET r == SegmentSelector_set_privilege_level(selector, level)
    IN  /\ ~panicked
        /\ selector' = r.self
        /\ panicked' = (r.ret = Panic)
        /\ last' = [op |-> "set_privilege_level", arg |-> level]
        /\ UNCHANGED <<descVars, sel_args, gdtVars, regVars, cpuVars>>

\* PrivilegeLevel::from(value)
PrivilegeLevelFrom(value) ==
    /\ ~panicked
    /\ last' = [op |-> "from", arg |-> value, ret |-> PrivilegeLevel_from(value)]
    /\ panicked' = (PrivilegeLevel_from(value) = Panic)
    /\ UNCHANGED <<descVars, selVars, gdtVars, regVars, cpuVars>>

MutatorNext ==
    \/ \E index \in SampleIndexes : SelSetIndex(index)
    \/ \E table \in DescriptorTables : SelSetTable(table)
    \/ \E level \in PrivilegeLevels : SelSetPrivilegeLevel(level)
    \/ \E value \in 0 .. MaxRaw : PrivilegeLevelFrom(value)
    \/ SelIndex \/ SelTable \/ SelPrivilegeLevel

MutatorSpec == MutatorInit /\ [][MutatorNext]_vars

-----------------------------------------------------------------------------
(* The descriptor table: one table, and a caller that pushes descriptors,  *)
(* asks for its pointer and loads it.                                      *)

\* the descriptors a caller pushes: both segment helpers at every privilege level
PushInputs ==
    {GDTDescriptor_code_segment(p) : p \in PrivilegeLevels}
        \cup {GDTDescriptor_data_segment(p) : p \in PrivilegeLevels}

\* what a nearly full table was filled with
FillDescriptor == GDTDescriptor_code_segment("KernelSpace")

\* the table after c - 1 pushes of FillDescriptor onto GlobalDescriptorTable::new()
FilledTable(c) ==
    [descriptors |-> [i \in 0 .. MaxDescriptors - 1 |->
                        IF 1 <= i /\ i < c THEN FillDescriptor
                        ELSE GlobalDescriptorTable_new.descriptors[i]],
     count       |-> c]

\* the tables a run starts with: a fresh one, and one Headroom pushes short of full
StartTables ==
    {GlobalDescriptorTable_new,
     FilledTable(MaxDescriptors - 1 - Headroom)}

Table == [descriptors |-> descriptors, count |-> count]

TableInit ==
    /\ \E t \in StartTables :
          /\ descriptors = t.descriptors
          /\ count = t.count
    /\ gdtr = None
    /\ last = [op |-> "new"]
    /\ panicked = FALSE
    /\ SelIdle /\ DescIdle /\ RegIdle /\ CpuIdle

\* a fresh table takes MaxPushed pushes; a table within Headroom slots of full
\* takes any number
PushBound == count <= MaxPushed \/ count >= MaxDescriptors - 1 - Headroom

\* table.push(descriptor)
Push(descriptor) ==
    LET r == GlobalDescriptorTable_push(Table, descriptor)
    IN  /\ ~panicked
        /\ PushBound
        /\ descriptors' = r.descriptors
        /\ count' = r.count
        /\ panicked' = (r.ret = Panic)
        /\ last' = IF r.ret = "Some"
                   THEN [op |-> "push", arg |-> descriptor, ret |-> r.ret, sel |-> r.sel]
                   ELSE [op |-> "push", arg |-> descriptor, ret |-> r.ret]
        /\ UNCHANGED <<descVars, gdtr, selVars, regVars, cpuVars>>

\* table.as_ptr()
AsPtr ==
    /\ ~panicked
    /\ last' = [op |-> "as_ptr", ret |-> GlobalDescriptorTable_as_ptr(Table)]
    /\ UNCHANGED <<descVars, gdtVars, selVars, regVars, cpuVars, panicked>>

\* table.load(): lgdt with the pointer as_ptr() returns
Load ==
    /\ ~panicked
    /\ gdtr' = Some(GlobalDescriptorTable_as_ptr(Table))
    /\ last' = [op |-> "load"]
    /\ UNCHANGED <<descVars, descriptors, count, selVars, regVars, cpuVars, panicked>>

TableNext == (\E descriptor \in PushInputs : Push(descriptor)) \/ AsPtr \/ Load

TableSpec == TableInit /\ [][TableNext]_vars

-----------------------------------------------------------------------------
(* push called from several execution contexts on one table.  push has no  *)
(* lock: its capacity test, its store to the slot, its increment of the    *)
(* count and its read of the count for the selector are steps of their own.*)
(* Where another context has written self.count in between, a read of it   *)
(* is a data race: it yields the count of the moment or the value this     *)
(* context loaded last, which the build may have kept in a register.       *)

\* what the contexts push: two descriptors that differ, and one whose privilege
\* push cannot decode
RaceInputs ==
    {GDTDescriptor_code_segment("KernelSpace"), GDTDescriptor_data_segment("KernelSpace"),
     GDTDescriptor_data_segment("UserSpace")}

\* the two execution contexts that share the table
PushContexts == {"first", "second"}

\* a context outside push: whether it has made its call, the indexes of the
\* selectors it was returned, the slot it stored to, and whether its call began
\* while another context was inside push.  Each context calls push once.
PushIdle == [pc |-> "idle", arg |-> GDTDescriptor_null, seen |-> 0, slot |-> 0,
             called |-> FALSE, rets |-> <<>>, raced |-> FALSE]

RaceInit ==
    /\ \E t \in StartTables :
          /\ descriptors = t.descriptors
          /\ count = t.count
    /\ gdtr = None
    /\ ctx = [c \in PushContexts |-> PushIdle]
    /\ last = [op |-> "new"]
    /\ panicked = FALSE
    /\ cpuid_hw = ZeroHw
    /\ cpuid_cache = FALSE
    /\ cpu_features_macro = "macros.rs"
    /\ FEATURES_CACHE = None
    /\ queries = <<>>
    /\ SelIdle /\ DescIdle /\ RegIdle

\* the values a read of self.count by context c can yield
CountReads(c) == {count, ctx[c].seen}

\* the contexts inside push, context c aside
InsidePush(c) == {w \in PushContexts \ {c} : ctx[w].pc # "idle"}

\* if self.count + 1 >= 8192 { return None; }
PushCheck(c, descriptor) ==
    /\ ~panicked
    /\ ctx[c].pc = "idle"
    /\ ~ctx[c].called
    /\ ctx' = [ctx EXCEPT ![c] =
                 [@ EXCEPT !.pc = IF TableFull(count) THEN "idle" ELSE "store",
                           !.arg = descriptor,
                           !.seen = count,
                           !.called = TRUE,
                           !.raced = @ \/ InsidePush(c) # {}]]
    /\ last' = [op |-> "push", step |-> "check",
                ret |-> IF TableFull(count) THEN "None" ELSE "running"]
    /\ UNCHANGED <<descriptors, count, gdtr, panicked, cpuid_hw, cpuid_cache,
                   cpu_features_macro, FEATURES_CACHE, queries, descVars, selVars, regVars>>

\* self.descriptors[self.count] = descriptor;
PushStore(c) ==
    /\ ~panicked
    /\ ctx[c].pc = "store"
    /\ \E k \in CountReads(c) :
          IF k >= MaxDescriptors
          THEN /\ panicked' = TRUE
               /\ last' = [op |-> "push", step |-> "store", ret |-> Panic]
               /\ UNCHANGED <<descriptors, ctx>>
          ELSE /\ descriptors' = [descriptors EXCEPT ![k] = ctx[c].arg]
               /\ ctx' = [ctx EXCEPT ![c] = [@ EXCEPT !.pc = "raise", !.seen = k, !.slot = k]]
               /\ last' = [op |-> "push", step |-> "store", ret |-> "running"]
               /\ UNCHANGED panicked
    /\ UNCHANGED <<count, gdtr, cpuid_hw, cpuid_cache,
                   cpu_features_macro, FEATURES_CACHE, queries, descVars, selVars, regVars>>

\* self.count += 1;
PushRaise(c) ==
    /\ ~panicked
    /\ ctx[c].pc = "raise"
    /\ \E k \in CountReads(c) :
          /\ count' = CountAfterPush(k)
          /\ ctx' = [ctx EXCEPT ![c] = [@ EXCEPT !.pc = "return", !.seen = CountAfterPush(k)]]
    /\ last' = [op |-> "push", step |-> "raise", ret |-> "running"]
    /\ UNCHANGED <<descriptors, gdtr, panicked, cpuid_hw, cpuid_cache,
                   cpu_features_macro, FEATURES_CACHE, queries, descVars, selVars, regVars>>

\* Some(SegmentSelector::new((self.count - 1) as u16, DescriptorTable::GDT,
\*                           descriptor.privilege_level()))
PushReturn(c) ==
    /\ ~panicked
    /\ ctx[c].pc = "return"
    /\ \E k \in CountReads(c) :
          LET level == GDTDescriptor_privilege_level(ctx[c].arg)
          IN  IF level = Panic
              THEN /\ panicked' = TRUE
                   /\ last' = [op |-> "push", step |-> "return", ret |-> Panic]
                   /\ UNCHANGED ctx
              ELSE /\ ctx' = [ctx EXCEPT ![c] =
                       [@ EXCEPT !.pc = "idle", !.seen = k,
                                 !.rets = Append(@, SegmentSelector_index(
                                     SegmentSelector_new(AsU16(k - 1), "GDT", level)))]]
                   /\ last' = [op |-> "push", step |-> "return", ret |-> "Some"]
                   /\ UNCHANGED panicked
    /\ UNCHANGED <<descriptors, count, gdtr, cpuid_hw, cpuid_cache,
                   cpu_features_macro, FEATURES_CACHE, queries, descVars, selVars, regVars>>

RaceNext ==
    \E c \in PushContexts :
        \/ \E descriptor \in RaceInputs : PushCheck(c, descriptor)
        \/ PushStore(c)
        \/ PushRaise(c)
        \/ PushReturn(c)

RaceSpec == RaceInit /\ [][RaceNext]_vars

-----------------------------------------------------------------------------
(* The control registers: a caller reads and writes cr0, cr3 and cr4.      *)

RegisterInit ==
    /\ cr \in [ControlRegisters -> SUBSET SampleBits]
    /\ last = [op |-> "none"]
    /\ panicked = FALSE
    /\ SelIdle /\ DescIdle /\ GdtIdle /\ CpuIdle

\* the flag sets a caller passes to set_<reg>
FlagInputs(reg) == SUBSET (FlagsStruct(reg) \cap SampleBits)

\* set_<reg>(value); prev is the call made just before it, which tells a write
\* that follows a read apart
SetReg(reg, value) ==
    /\ cr' = set_reg(reg, value, cr)
    /\ last' = [op |-> "set", reg |-> reg, arg |-> value,
                prev |-> IF last.op = "get" THEN last ELSE [op |-> last.op]]
    /\ UNCHANGED <<descVars, selVars, gdtVars, cpuVars, panicked>>

\* get_<reg>()
GetReg(reg) ==
    /\ last' = [op |-> "get", reg |-> reg, ret |-> get_reg(reg, cr)]
    /\ UNCHANGED <<descVars, cr, selVars, gdtVars, cpuVars, panicked>>

RegisterNext ==
    \E reg \in ControlRegisters :
        \/ \E value \in FlagInputs(reg) : SetReg(reg, value)
        \/ GetReg(reg)

RegisterSpec == RegisterInit /\ [][RegisterNext]_vars

-----------------------------------------------------------------------------
(* The feature registry: a caller asks for the enabled and for all         *)
(* features on some hardware.                                              *)

AllBits == 0 .. 31

\* hardware that answers request q with bit b of register r set, and nothing else
OneHotHw(q, r, b) == [ZeroHw EXCEPT ![q][r] = {b}]

\* hardware that sets every bit of every answer
OnesHw == [q \in CpuQueries |-> [r \in CpuidRegisters |-> AllBits]]

HwInputs ==
    {ZeroHw, OnesHw}
        \cup {OneHotHw(q, r, b) : q \in CpuQueries, r \in CpuidRegisters, b \in AllBits}

FeatureInit ==
    /\ cpuid_hw \in HwInputs
    /\ cpuid_cache \in BOOLEAN
    /\ cpu_features_macro \in CpuFeaturesMacros
    /\ FEATURES_CACHE = None
    /\ queries = <<>>
    /\ ctx = [c \in Contexts |-> CtxIdle]
    /\ last = [op |-> "none"]
    /\ panicked = FALSE
    /\ SelIdle /\ DescIdle /\ GdtIdle /\ RegIdle

\* CPUFeature::enabled_features()
EnabledFeatures ==
    IF CacheCompiled(cpu_features_macro, cpuid_cache) /\ FEATURES_CACHE # None
    THEN /\ last' = [op |-> "enabled_features", ret |-> FEATURES_CACHE[1], cached |-> TRUE]
         /\ UNCHANGED <<descVars, cpuVars, selVars, gdtVars, regVars, panicked>>
    ELSE LET asked   == RequestsAsked(cpu_features_macro)
             enabled == EnabledAfter(Len(asked), asked, cpuid_hw)
         IN  /\ Len(queries) < MaxCalls * Len(CPUIDRequests)
             /\ queries' = queries \o asked
             /\ FEATURES_CACHE' = IF CacheCompiled(cpu_features_macro, cpuid_cache)
                                  THEN Some(enabled) ELSE FEATURES_CACHE
             /\ last' = [op |-> "enabled_features", ret |-> enabled, cached |-> FALSE]
             /\ UNCHANGED <<descVars, cpuid_hw, cpuid_cache, cpu_features_macro, ctx, selVars,
                            gdtVars, regVars, panicked>>

\* CPUFeature::all_features()
AllFeatures ==
    /\ last' = [op |-> "all_features", ret |-> all_features]
    /\ UNCHANGED <<descVars, cpuVars, selVars, gdtVars, regVars, panicked>>

FeatureNext == EnabledFeatures \/ AllFeatures

FeatureSpec == FeatureInit /\ [][FeatureNext]_vars

-----------------------------------------------------------------------------
(* The feature cache under concurrency: several execution contexts call    *)
(* enabled_features of x86/macros.rs, built with feature "cpuid_cache".    *)
(* FEATURES_CACHE is a static mut read and written inside plain unsafe     *)
(* blocks, so the steps of the calls interleave freely.                    *)

\* the hardware the contexts run on
CacheHwInputs ==
    {ZeroHw, OnesHw} \cup {OneHotHw(q, "edx", 0) : q \in CpuQueries}

CacheInit ==
    /\ cpuid_hw \in CacheHwInputs
    /\ cpuid_cache = TRUE
    /\ cpu_features_macro = "macros.rs"
    /\ FEATURES_CACHE = None
    /\ queries = <<>>
    /\ ctx = [c \in Contexts |-> CtxIdle]
    /\ last = [op |-> "none"]
    /\ panicked = FALSE
    /\ SelIdle /\ DescIdle /\ GdtIdle /\ RegIdle

\* another context is in the middle of the assignment to FEATURES_CACHE
WriterOtherThan(c) == {w \in Contexts \ {c} : ctx[w].pc = "storing"}

\* what FEATURES_CACHE.clone() may yield to context c: the value held, or, while
\* another context is assigning (a data race), also the value being assigned or
\* a torn one
CacheReads(c) ==
    {FEATURES_CACHE}
        \cup {Some(ctx[w].vec) : w \in WriterOtherThan(c)}
        \cup {Some(<<"torn">>) : w \in WriterOtherThan(c)}

\* if let Some(features) = unsafe { FEATURES_CACHE.clone() } { return features; }
CacheCheck(c) ==
    /\ ctx[c].pc = "idle"
    /\ \E seen \in CacheReads(c) :
          /\ ctx' = [ctx EXCEPT ![c].pc = IF seen = None THEN "query" ELSE "done",
                                ![c].raced = WriterOtherThan(c) # {}]
          /\ last' = IF seen = None
                     THEN [op |-> "check", ctx |-> c]
                     ELSE [op |-> "enabled_features", ctx |-> c, ret |-> seen[1],
                           cached |-> TRUE]
    /\ UNCHANGED <<descVars, cpuid_hw, cpuid_cache, cpu_features_macro, FEATURES_CACHE, queries,
                   selVars, gdtVars, regVars, panicked>>

\* the five enabled_features_by calls
CacheQuery(c) ==
    LET asked == RequestsAsked(cpu_features_macro)
    IN  /\ ctx[c].pc = "query"
        /\ ctx' = [ctx EXCEPT ![c].pc = "store",
                              ![c].vec = EnabledAfter(Len(asked), asked, cpuid_hw)]
        /\ queries' = queries \o asked
        /\ last' = [op |-> "query", ctx |-> c]
        /\ UNCHANGED <<descVars, cpuid_hw, cpuid_cache, cpu_features_macro, FEATURES_CACHE,
                       selVars, gdtVars, regVars, panicked>>

\* unsafe { FEATURES_CACHE = Some(enabled_features.clone()) }: the assignment begins
CacheStoreBegin(c) ==
    /\ ctx[c].pc = "store"
    /\ ctx' = [ctx EXCEPT ![c].pc = "storing",
                          ![c].raced = WriterOtherThan(c) # {}]
    /\ last' = [op |-> "store", ctx |-> c]
    /\ UNCHANGED <<descVars, cpuid_hw, cpuid_cache, cpu_features_macro, FEATURES_CACHE, queries,
                   selVars, gdtVars, regVars, panicked>>

\* the assignment is complete, and enabled_features returns its vector
CacheStoreEnd(c) ==
    /\ ctx[c].pc = "storing"
    /\ FEATURES_CACHE' = Some(ctx[c].vec)
    /\ ctx' = [ctx EXCEPT ![c].pc = "done", ![c].wrote = TRUE]
    /\ last' = [op |-> "enabled_features", ctx |-> c, ret |-> ctx[c].vec,
                cached |-> FALSE]
    /\ UNCHANGED <<descVars, cpuid_hw, cpuid_cache, cpu_features_macro, queries,
                   selVars, gdtVars, regVars, panicked>>

CacheNext ==
    \E c \in Contexts :
        CacheCheck(c) \/ CacheQuery(c) \/ CacheStoreBegin(c) \/ CacheStoreEnd(c)

CacheSpec == CacheInit /\ [][CacheNext]_vars

-----------------------------------------------------------------------------
(* The feature cache in one execution context: enabled_features of         *)
(* x86/macros.rs, built with feature "cpuid_cache", called again and again *)
(* while what CPUID would answer changes between the calls.                *)

WriteOnceInit ==
    /\ cpuid_hw \in CacheHwInputs
    /\ cpuid_cache = TRUE
    /\ cpu_features_macro = "macros.rs"
    /\ FEATURES_CACHE = None
    /\ queries = <<>>
    /\ ctx = [c \in Contexts |-> CtxIdle]
    /\ last = [op |-> "none"]
    /\ panicked = FALSE
    /\ SelIdle /\ DescIdle /\ GdtIdle /\ RegIdle

\* the answers of CPUID change (CR4.OSXSAVE or CR4.PKE is set, the code moves to
\* another machine)
HwChange(hw) ==
    /\ hw # cpuid_hw
    /\ cpuid_hw' = hw
    /\ last' = [op |-> "hw_change"]
    /\ UNCHANGED <<cpuid_cache, cpu_features_macro, FEATURES_CACHE, queries, ctx,
                   descVars, selVars, gdtVars, regVars, panicked>>

WriteOnceNext ==
    \/ EnabledFeatures
    \/ AllFeatures
    \/ \E hw \in CacheHwInputs : HwChange(hw)

WriteOnceSpec == WriteOnceInit /\ [][WriteOnceNext]_vars

-----------------------------------------------------------------------------
(* Properties.                                                             *)

\* the catalog line that declares the feature ident
CatalogEntry(ident) ==
    Catalog[CHOOSE i \in DOMAIN Catalog : Catalog[i].ident = ident]

\* the members of a sequence
Range(seq) == {seq[i] : i \in DOMAIN seq}

\* C1 (SelectorSpec): selector round-trip.  A selector built by
\* SegmentSelector::new(index, table, privilege) from an index below 8192, either
\* table and any privilege level reads back, without a panic, as the same index,
\* the same table and the same privilege level.
SelectorRoundTrip ==
    /\ last.op = "index" => last.ret = sel_args.index
    /\ last.op = "table" => last.ret = sel_args.table
    /\ last.op = "privilege_level" => last.ret = sel_args.privilege

\* C2 (TableSpec): capacity law.  Every push onto a table whose count is below 8191
\* returns Some selector whose index is the count before the call (so the indices
\* of a fresh table start at 1 and rise by one) and raises count by one; a push at
\* count 8191 returns None and leaves count alone.
CapacityLaw ==
    [][last'.op = "push" =>
          IF count < MaxDescriptors - 1
          THEN /\ last'.ret = "Some"
               /\ SegmentSelector_index(last'.sel) = count
               /\ count' = count + 1
          ELSE /\ last'.ret = "None"
               /\ count' = count]_vars

\* C3 (TableSpec): null descriptor invariant.  Slot 0 of the table is the all-zero
\* descriptor when the table is built and after every sequence of push, as_ptr and
\* load calls, whether they succeed or not: push never writes slot 0.
NullDescriptorInvariant == descriptors[0] = GDTDescriptor_null

\* C3 witness: a push has stored a descriptor, the table has been loaded, and a
\* later push has failed.
NullDescriptorWitness ==
    /\ count = MaxDescriptors - 1
    /\ descriptors[count - 1] \in PushInputs
    /\ gdtr # None
    /\ last.op = "push"
    /\ last.ret = "None"
    /\ descriptors[0] = GDTDescriptor_null

\* C4 (TableSpec): the selector's privilege mirrors the descriptor's.  A push of
\* code_segment(p) or data_segment(p) into a table that is not full returns Some
\* selector whose privilege_level() is p, for each of the four levels p.
SelectorMirrorsDescriptor ==
    [][(last'.op = "push" /\ count + 1 < MaxDescriptors) =>
          \A p \in PrivilegeLevels :
              last'.arg \in {GDTDescriptor_code_segment(p), GDTDescriptor_data_segment(p)}
                  => /\ last'.ret = "Some"
                     /\ SegmentSelector_privilege_level(last'.sel) = p]_vars

\* C5 (RegisterSpec): a flag write preserves unknown bits.  Across set_<reg>(desired),
\* for cr0, cr3 and cr4 and every desired flag set, the bits of the hardware register
\* outside the register's named flags are what they were before the call.
FlagWritePreservesUnknownBits ==
    [][last'.op = "set" =>
          \A reg \in ControlRegisters :
              cr'[reg] \ FlagsStruct(reg) = cr[reg] \ FlagsStruct(reg)]_vars

\* C6 (FeatureSpec): feature matching is exact-mask.  Every feature enabled_features()
\* reports has all the bits of its mask set in its own register of the answer to its
\* own request; bits set in another register or in the answer to another request do
\* not get it reported.
ExactMaskMatching ==
    last.op = "enabled_features" =>
        \A ident \in Range(last.ret) :
            LET entry == CatalogEntry(ident)
            IN  entry.value \subseteq
                    CPUIDRequest_cpuid(entry.request, cpuid_hw)[entry.register]

\* C6 witness: enabled_features() has reported exactly one feature, and the catalog
\* holds another feature with the same mask, in another register or request, that it
\* has not reported.
ExactMaskWitness ==
    /\ last.op = "enabled_features"
    /\ Len(last.ret) = 1
    /\ \E i \in DOMAIN Catalog :
          /\ Catalog[i].value = CatalogEntry(last.ret[1]).value
          /\ Catalog[i].ident # last.ret[1]

\* C7 (TableSpec): table pointer size.  as_ptr() returns a pointer whose size is
\* exactly count * 8 - 1, 8 being the size of one descriptor: the 16-bit field
\* never wraps for a count the table reaches.
TablePointerSize ==
    last.op = "as_ptr" =>
        /\ SizeOfGDTDescriptor = 8
        /\ last.ret.size = count * 8 - 1

\* C7 witness: as_ptr() on a table that has reached the largest count, 8191.
TablePointerWitness ==
    /\ last.op = "as_ptr"
    /\ count = MaxDescriptors - 1
    /\ last.ret.size = 65527

\* C8 (FeatureSpec): catalog completeness.  all_features() returns every declared
\* variant of CPUFeature once, in declaration order, whatever the hardware answers,
\* and the call leaves the hardware, the queries issued and the feature cache alone.
CatalogCompleteness ==
    [][last'.op = "all_features" =>
          /\ last'.ret = CPUFeature
          /\ Cardinality(Range(last'.ret)) = Len(last'.ret)
          /\ UNCHANGED cpuVars]_vars

\* C8 witness: all_features() called on hardware that sets every bit, after the
\* feature cache was filled.
CatalogWitness ==
    /\ last.op = "all_features"
    /\ Len(last.ret) = Len(Catalog)
    /\ cpuid_hw = OnesHw
    /\ FEATURES_CACHE # None

\* C9 (TableSpec): insert on a full table.  Whenever count + 1 >= 8192, push returns
\* None for every descriptor, does not panic, and leaves count and all 8192 slots
\* as they were.
InsertOnFullTable ==
    [][(last'.op = "push" /\ count + 1 >= MaxDescriptors) =>
          /\ last'.ret = "None"
          /\ ~panicked'
          /\ count' = count
          /\ descriptors' = descriptors]_vars

\* C9 witness: a push onto the full table has returned None.
InsertOnFullWitness ==
    /\ last.op = "push"
    /\ last.ret = "None"
    /\ count + 1 >= MaxDescriptors
    /\ DOMAIN descriptors = 0 .. MaxDescriptors - 1

\* C10 (TableSpec): insert on a table that is not full.  Whenever count + 1 < 8192,
\* push(d) stores d in the slot at the old count, leaves every other slot alone,
\* raises count by one and returns Some selector whose index is the old count and
\* whose table is GDT, so the slot the selector addresses holds d.
InsertOnNonFullTable ==
    [][(last'.op = "push" /\ count + 1 < MaxDescriptors) =>
          /\ descriptors' = [descriptors EXCEPT ![count] = last'.arg]
          /\ count' = count + 1
          /\ last'.ret = "Some"
          /\ SegmentSelector_index(last'.sel) = count
          /\ SegmentSelector_table(last'.sel) = "GDT"
          /\ descriptors'[SegmentSelector_index(last'.sel)] = last'.arg]_vars


\* C11 (TableSpec): count and unused-slot invariant.  new() builds a table with
\* count 1 and 8192 null slots; in every state pushes reach, count stays within
\* 1..8191 and every slot at or above count is null; and every slot below count
\* holds what it held before or the descriptor of a push that returned Some.
CountInvariant ==
    /\ [](/\ GlobalDescriptorTable_new.count = 1
          /\ \A i \in 0 .. MaxDescriptors - 1 :
                GlobalDescriptorTable_new.descriptors[i] = GDTDescriptor_null
          /\ 1 <= count
          /\ count <= MaxDescriptors - 1
          /\ \A i \in count .. MaxDescriptors - 1 :
                descriptors[i] = GDTDescriptor_null)
    /\ [][\A i \in 1 .. count' - 1 :
             \/ i < count /\ descriptors'[i] = descriptors[i]
             \/ /\ last'.op = "push"
                /\ last'.ret = "Some"
                /\ descriptors'[i] = last'.arg]_vars


\* C12 (FeatureSpec): one hardware query per distinct request.  A call of
\* enabled_features() that does not answer from the cache issues exactly one CPUID
\* query for each request some catalog feature references, and reports every
\* catalog feature whose mask is set in its register of the answer to its request.
OneQueryPerRequest ==
    [][(last'.op = "enabled_features" /\ ~last'.cached) =>
          LET issued == SubSeq(queries', Len(queries) + 1, Len(queries'))
          IN  /\ \A i \in DOMAIN Catalog :
                    Cardinality({k \in DOMAIN issued :
                        CPUIDRequest_query(issued[k])
                            = CPUIDRequest_query(Catalog[i].request)}) = 1
              /\ \A i \in DOMAIN Catalog :
                    Catalog[i].value \subseteq
                        CPUIDRequest_cpuid(Catalog[i].request, cpuid_hw)[Catalog[i].register]
                    => Catalog[i].ident \in Range(last'.ret)]_vars


\* the privilege level whose ordinal 0..3 is n
LevelOfOrdinal(n) ==
    CHOOSE p \in PrivilegeLevels : Shr(PrivilegeLevel_as_int(p), 5) = n

\* C13 (MutatorSpec): privilege decode.  PrivilegeLevel::from(v) returns
\* KernelSpace, Ring1, Ring2, UserSpace for v = 0, 1, 2, 3 and panics for every
\* other v; so privilege_level() returns a level, never panics, for every selector.
PrivilegeDecode ==
    /\ last.op = "from" =>
          last.ret = IF last.arg <= 3 THEN LevelOfOrdinal(last.arg) ELSE Panic
    /\ last.op = "privilege_level" => last.ret \in PrivilegeLevels

\* C14 (SelectorSpec): selector bit layout.  The value SegmentSelector::new(index,
\* table, privilege) builds holds the index in bits 3..15, the table in bit 2
\* (0 = GDT, 1 = LDT) and the privilege ordinal 0..3 in bits 0..1.
SelectorBitLayout ==
    last.op # "none" =>
        /\ GetBits(selector, 3, 16) = sel_args.index
        /\ GetBit(selector, 2) = (sel_args.table = "LDT")
        /\ LevelOfOrdinal(GetBits(selector, 0, 2)) = sel_args.privilege

\* C15 (MutatorSpec): set_index replaces only the index field.  After
\* s.set_index(i), for i below 8192, index() is i and bits 0..2 (table and
\* privilege) are what they were.
SetIndexFrame ==
    [][last'.op = "set_index" =>
          /\ ~panicked'
          /\ SegmentSelector_index(selector') = last'.arg
          /\ GetBits(selector', 0, 3) = GetBits(selector, 0, 3)]_vars

\* C16 (MutatorSpec): set_privilege_level replaces only the privilege field.
\* s.set_privilege_level(level) does not panic, leaves the ordinal of level in bits
\* 0..1, so that privilege_level() returns level, and leaves bits 2..15 alone.
SetPrivilegeLevelFrame ==
    [][last'.op = "set_privilege_level" =>
          /\ ~panicked'
          /\ LevelOfOrdinal(GetBits(selector', 0, 2)) = last'.arg
          /\ SegmentSelector_privilege_level(selector') = last'.arg
          /\ GetBits(selector', 2, 16) = GetBits(selector, 2, 16)]_vars

\* C17 (MutatorSpec): set_table replaces only the table field.  After
\* s.set_table(t), table() is t, bits 3..15 and 0..1 are what they were, and the
\* selector is SegmentSelector::new(old index, t, old privilege).
SetTableFrame ==
    [][last'.op = "set_table" =>
          /\ SegmentSelector_table(selector') = last'.arg
          /\ GetBits(selector', 3, 16) = GetBits(selector, 3, 16)
          /\ GetBits(selector', 0, 2) = GetBits(selector, 0, 2)
          /\ selector' = SegmentSelector_new(GetBits(selector, 3, 16), last'.arg,
                                             LevelOfOrdinal(GetBits(selector, 0, 2)))]_vars


\* C18 (RegisterSpec): a flag write is a union.  After set_<reg>(desired) the named
\* flags the register holds are the named flags it held before together with
\* desired: a named flag that was set and is not in desired is still set.
FlagWriteIsUnion ==
    [][last'.op = "set" =>
          LET named == FlagsStruct(last'.reg)
          IN  cr'[last'.reg] \cap named = (cr[last'.reg] \cap named) \cup last'.arg]_vars

\* C18 witness: set_cr4 was called with PKS alone and cr4 also holds DE, which only
\* a flag held before the call can account for.
FlagWriteIsUnionWitness ==
    /\ last.op = "set"
    /\ last.reg = "cr4"
    /\ last.arg = {34}
    /\ cr["cr4"] \cap CR4Flags = {3, 34}

\* a set_<reg>(s) whose s is what the get_<reg>() just before it returned, less
\* the one flag
WritesBackWithout(flag) ==
    /\ last.op = "set"
    /\ last.prev.op = "get"
    /\ last.prev.reg = last.reg
    /\ flag \in last.prev.ret
    /\ last.arg = last.prev.ret \ {flag}

\* C19 (RegisterSpec), as stated: clearing a flag.  After s = get_<reg>(), removing
\* a flag that is set from s, and set_<reg>(s), the register holds it cleared.
ClearingFlag ==
    \A flag \in SampleBits : WritesBackWithout(flag) => flag \notin cr[last.reg]

\* C19 (RegisterSpec), amended: set_<reg> cannot clear a flag.  After
\* s = get_<reg>(), removing a flag that is set from s, and set_<reg>(s), the
\* register still holds it set.
ClearingFlagKeepsFlag ==
    \A flag \in SampleBits : WritesBackWithout(flag) => flag \in cr[last.reg]

\* C19 witness: cr4 held DE and PKS, was read, and was written back without DE.
ClearingFlagWitness ==
    /\ WritesBackWithout(3)
    /\ last.reg = "cr4"
    /\ last.arg = {34}
    /\ 3 \in cr["cr4"]


\* C20 (CacheSpec): race-free capability cache.  When several contexts call
\* enabled_features() while FEATURES_CACHE is empty, at most one of them passes the
\* empty-cache check and writes the cache, and no context reads or writes the
\* cache while another is writing it.
RaceFreeCache ==
    /\ Cardinality({c \in Contexts : ctx[c].wrote}) <= 1
    /\ \A c \in Contexts : ~ctx[c].raced


\* the access byte that holds exactly the flags of base and the level's ordinal in
\* bits 5..6
CanonicalAccess(base, level) == base + Shr(PrivilegeLevel_as_int(level), 5) * Pow2(5)

\* C21 (DescriptorSpec): canonical segment shapes.  code_segment(p) has base 0 and
\* the access byte PRESENT | ACCESSED | USER_SEGMENT | EXECUTABLE | READABLE with p
\* in bits 5..6; data_segment(p) has base 0 and the access byte PRESENT | ACCESSED |
\* USER_SEGMENT | WRITABLE with p in bits 5..6; no other access bit is set, and the
\* flags byte of both has GRANULARITY and LONG_MODE set and SIZE clear.
CanonicalSegments ==
    last.op \in {"code_segment", "data_segment"} =>
        /\ desc.lower_base_address = 0
        /\ desc.middle_base_address = 0
        /\ desc.higher_base_address = 0
        /\ desc.access = CanonicalAccess(
               IF last.op = "code_segment"
               THEN Access_PRESENT + Access_ACCESSED + Access_USER_SEGMENT
                        + Access_EXECUTABLE + Access_READABLE
               ELSE Access_PRESENT + Access_ACCESSED + Access_USER_SEGMENT
                        + Access_WRITABLE,
               last.arg)
        /\ GetBit(desc.flags, 7)
        /\ GetBit(desc.flags, 5)
        /\ ~GetBit(desc.flags, 6)


\* C25 (DescriptorSpec): descriptor privilege round-trip.  For every level p and
\* every base, limit, access and flags, GDTDescriptor::new(base, limit, p, access,
\* flags).privilege_level() returns p and does not panic.
DescriptorPrivilegeRoundTrip ==
    last.op = "privilege_level" =>
        /\ ~panicked
        /\ last.ret = desc_args.privilege

\* C26 (DescriptorSpec): base address split.  new stores bits 0..15 of the base b in
\* lower_base_address, bits 16..23 in middle_base_address and bits 24..31 in
\* higher_base_address, so b is lower | (middle << 16) | (higher << 24).
BaseAddressSplit ==
    last.op = "new" =>
        /\ desc.lower_base_address = GetBits(desc_args.base_address, 0, 16)
        /\ desc.middle_base_address = GetBits(desc_args.base_address, 16, 24)
        /\ desc.higher_base_address = GetBits(desc_args.base_address, 24, 32)
        /\ desc_args.base_address =
              desc.lower_base_address + desc.middle_base_address * Pow2(16)
                  + desc.higher_base_address * Pow2(24)

\* the 20-bit limit a descriptor encodes: lower_limit_address and the low nibble of
\* the flags byte
EncodedLimit(d) == d.lower_limit_address + GetBits(d.flags, 0, 4) * Pow2(16)

\* C27 (DescriptorSpec): limit encoding.  new stores bits 0..15 of the limit l in
\* lower_limit_address and bits 16..19 in the low nibble of the flags byte, and l
\* changes no bit of the access byte; code_segment and data_segment encode 0xFFFFF.
LimitEncoding ==
    /\ last.op = "new" =>
          /\ desc.lower_limit_address = GetBits(desc_args.limit_address, 0, 16)
          /\ GetBits(desc.flags, 0, 4) = GetBits(desc_args.limit_address, 16, 20)
          /\ desc.access = BitOr(desc_args.access,
                                 PrivilegeLevel_as_int(desc_args.privilege))
    /\ last.op \in {"code_segment", "data_segment"} => EncodedLimit(desc) = MaxLimit


\* where the catalog declares the feature ident
CatalogPosition(ident) == CHOOSE i \in DOMAIN Catalog : Catalog[i].ident = ident

\* C22 (FeatureSpec): result order follows the catalog.  What enabled_features()
\* returns is a subsequence of all_features(): every feature in it is declared,
\* appears once, and comes before the features declared after it.
ResultOrderFollowsCatalog ==
    last.op = "enabled_features" =>
        /\ Range(last.ret) \subseteq Range(all_features)
        /\ \A j \in 1 .. Len(last.ret) - 1 :
              CatalogPosition(last.ret[j]) < CatalogPosition(last.ret[j + 1])

\* C22 witness: enabled_features() has reported features of the first and of the
\* last request the catalog declares, on hardware that sets every bit.
ResultOrderWitness ==
    /\ last.op = "enabled_features"
    /\ cpuid_hw = OnesHw
    /\ \E j, k \in DOMAIN last.ret :
          /\ CatalogEntry(last.ret[j]).request = "Features"
          /\ CatalogEntry(last.ret[k]).request = "ExtendedFeatures4"


\* C23 (TableSpec): append-only table.  Across push, as_ptr and load calls count
\* never decreases and a slot below count never changes (the one slot a call may
\* change is the first unused one, at index count); as_ptr and load leave count
\* and every slot alone, and a load that follows a load leaves the same pointer
\* in the GDTR.
AppendOnlyTable ==
    [][/\ count' >= count
       /\ descriptors' = [descriptors EXCEPT ![count] = descriptors'[count]]
       /\ last'.op \in {"as_ptr", "load"} =>
             /\ count' = count
             /\ descriptors' = descriptors
       /\ (last.op = "load" /\ last'.op = "load") => gdtr' = gdtr]_vars

\* C23 witness: a descriptor was pushed onto a fresh table, and the table was then
\* loaded with the descriptor still in its slot.
AppendOnlyWitness ==
    /\ last.op = "load"
    /\ count = 2
    /\ descriptors[1] \in PushInputs
    /\ gdtr = Some(GlobalDescriptorTable_as_ptr(Table))


\* C24 (TableSpec): insert is total and failure-atomic.  Every push of a descriptor
\* built with any of the four privilege levels returns Some or None and does not
\* panic; a push that does not return Some leaves count and every slot as before.
InsertTotalAndAtomic ==
    [][last'.op = "push" =>
          /\ last'.ret \in {"Some", "None"}
          /\ ~panicked'
          /\ last'.ret # "Some" =>
                /\ count' = count
                /\ descriptors' = descriptors]_vars


\* what enabled_features would compute from the hardware's answers of the moment
EnabledNow ==
    EnabledAfter(Len(RequestsAsked(cpu_features_macro)),
                 RequestsAsked(cpu_features_macro), cpuid_hw)

\* C28 (WriteOnceSpec): write-once capability cache.  In one context, with
\* cpuid_cache enabled, the first enabled_features() call issues the hardware
\* queries and stores its result in FEATURES_CACHE; FEATURES_CACHE, once Some, never
\* changes again; every later call issues no query and returns the first result,
\* whatever the hardware would answer by then.
WriteOnceCache ==
    [][/\ FEATURES_CACHE # None => FEATURES_CACHE' = FEATURES_CACHE
       /\ (last'.op = "enabled_features" /\ FEATURES_CACHE = None) =>
             /\ queries' = RequestsAsked(cpu_features_macro)
             /\ last'.ret = EnabledNow
             /\ FEATURES_CACHE' = Some(last'.ret)
       /\ (last'.op = "enabled_features" /\ FEATURES_CACHE # None) =>
             /\ queries' = queries
             /\ last'.ret = FEATURES_CACHE[1]
       /\ last'.op # "enabled_features" => FEATURES_CACHE' = FEATURES_CACHE]_vars

\* C28 witness: a later call has returned the first call's result although the
\* hardware would by now answer differently.
WriteOnceWitness ==
    /\ last.op = "enabled_features"
    /\ last.cached
    /\ last.ret = FEATURES_CACHE[1]
    /\ last.ret # EnabledNow
    /\ Len(queries) = Len(RequestsAsked(cpu_features_macro))


\* C29 (WideSpec): index overflow truncates silently.  For every index from 8192
\* to 65535, every table and every privilege, SegmentSelector::new does not abort
\* and returns what it returns for index mod 8192; the bits of the index above
\* the field do not reach the three low bits of the selector.
IndexOverflowTruncates ==
    last.op = "new" =>
        /\ ~panicked
        /\ sel_args.index >= Pow2(IndexBits)
        /\ selector = SegmentSelector_new(sel_args.index % Pow2(IndexBits),
                                          sel_args.table, sel_args.privilege)
        /\ selector < Pow2(16)
        /\ GetBits(selector, 0, 3) =
               GetBits(SegmentSelector_new(0, sel_args.table, sel_args.privilege), 0, 3)

\* C29 witness: new(65535, LDT, UserSpace) has returned the selector of
\* new(8191, LDT, UserSpace).
IndexOverflowWitness ==
    /\ last.op = "new"
    /\ sel_args = [index |-> 65535, table |-> "LDT", privilege |-> "UserSpace"]
    /\ selector = SegmentSelector_new(8191, "LDT", "UserSpace")


\* the successful pushes so far: the context, the position among its returns
ReturnedPushes == {p \in PushContexts \X {1} : p[2] <= Len(ctx[p[1]].rets)}

\* C30 (RaceSpec): insert is not synchronised.  push's capacity check, slot store
\* and count increment are separate steps without a guard, so contexts that
\* interleave push calls can store to the same slot and be returned the same
\* index (the witness); when no call begins while another context is inside
\* push, every two successful pushes return different indexes.
SerialisedPushesDistinct ==
    (\A c \in PushContexts : ~ctx[c].raced) =>
        \A p \in ReturnedPushes : \A q \in ReturnedPushes :
            p # q => ctx[p[1]].rets[p[2]] # ctx[q[1]].rets[q[2]]

\* C30 witness: two contexts, pushing different descriptors, have both stored to
\* one slot and both been returned that slot's index; the slot holds one of the
\* two descriptors.
UnsynchronisedInsertWitness ==
    \E c \in PushContexts : \E w \in PushContexts \ {c} :
        /\ ctx[c].pc = "idle" /\ ctx[w].pc = "idle"
        /\ ctx[c].rets # <<>> /\ ctx[w].rets # <<>>
        /\ ctx[c].slot = ctx[w].slot
        /\ ctx[c].rets[Len(ctx[c].rets)] = ctx[c].slot
        /\ ctx[w].rets[Len(ctx[w].rets)] = ctx[c].slot
        /\ ctx[c].arg # ctx[w].arg
        /\ descriptors = [descriptors EXCEPT ![ctx[c].slot] = ctx[w].arg]

=============================================================================
